---- MODULE Spec2Model ----
(***************************************************************************)
(* State-machine model of starduster/inference.py: the error kernels       *)
(* (ErrorFunction, Gaussian, GaussianWithScatter), the Posterior that      *)
(* composes a forward SED model with a kernel, the InferenceState          *)
(* snapshot, and the optimize driver.                                      *)
(*                                                                         *)
(* Floating-point values are modelled by integers.  Python strings whose   *)
(* characters matter (configuration keys, attribute names) are sequences   *)
(* of one-character strings.                                               *)
(***************************************************************************)
EXTENDS Integers, Sequences, FiniteSets, TLC

VARIABLES
    _output_mode,   \* Posterior._output_mode
    _sign,          \* Posterior._sign
    log_out,        \* Posterior.log_out
    error_func,     \* Posterior.error_func (NoKernel until it is assigned)
    device,         \* sed_model.adapter.device
    adapter_cfg,    \* input-side configuration held by the forward model
    detector_cfg,   \* output-side configuration held by the forward model
    saved,          \* the InferenceState written by save_inference_state
    op,             \* name of the last operation that ran
    raised,         \* exception the last operation raised, or "none"
    args,           \* arguments of the last configure_output_mode call
    ev,             \* what the last Posterior.forward call did
    ret,            \* value returned by the last load_inference_state call
    cb,             \* the last direct call of ErrorFunction.check_bounds
    calls,          \* what the last load_inference_state call did, in order
    opt             \* the optimize() call in progress

vars == <<_output_mode, _sign, log_out, error_func, device, adapter_cfg,
          detector_cfg, saved, op, raised, args, ev, ret, cb, calls, opt>>

----------------------------------------------------------------------------
(* Bounds of the model *)

MaxRows == 2            \* rows of a batch passed to Posterior.forward
MaxScore == 1           \* an error kernel returns a value in -MaxScore..MaxScore
MaxParamBelow == 3      \* error-parameter values tried: -MaxParamBelow..MaxParamAbove
MaxParamAbove == 1
MaxKeys == 1            \* options set in the forward model's two configurations
AdapterInputSize == 2   \* sed_model.adapter.input_size
MaxSteps == 2           \* largest n_step passed to optimize

(* -1e15 in the source; the largest power of ten that TLC's 32-bit         *)
(* integers leave room for.                                                *)
LogOutDefault == -1000000000

MinScore == -MaxScore
Scores == MinScore..MaxScore
ParamVals == (-MaxParamBelow)..MaxParamAbove
LogOuts == {LogOutDefault, -1}
OutputModes == {"torch", "numpy", "numpy_grad"}
ModeArgs == OutputModes \cup {"jax"}
Devices == {"cpu", "cuda"}
DefaultDevice == "cpu"  \* where torch.tensor(...) puts a tensor by default

----------------------------------------------------------------------------
(* ErrorFunction and its subclasses *)

NoKernel ==
    [kind |-> "unset", n_params |-> 0, param_names |-> <<>>,
     bounds |-> <<>>, lbounds |-> <<>>, ubounds |-> <<>>]

\* An array argument carries its number of dimensions: Flat(<<min, max>>)
\* is a (min, max) tuple, Rows(<<...>>) a list of such pairs.
Flat(v) == [ndim |-> 1, v |-> v]
Rows(v) == [ndim |-> 2, v |-> v]

\* An optional argument is the empty set (None) or a singleton.
None == {}
Some(x) == {x}
The(o) == CHOOSE x \in o : TRUE

\* np.atleast_2d(bounds): a flat (min, max) pair becomes one row.
atleast_2d(b) ==
    IF b.ndim = 1 THEN <<b.v>> ELSE b.v

\* lbounds, ubounds = torch.tensor(bounds).T : the columns of the rows.
Column(b, j) ==
    [i \in 1..Len(atleast_2d(b)) |-> atleast_2d(b)[i][j]]

\* ErrorFunction.__init__(param_names, bounds)
ErrorFunction(kind, names, b) ==
    IF names = None
    THEN [kind |-> kind, n_params |-> 0, param_names |-> <<>>,
          bounds |-> <<>>, lbounds |-> <<>>, ubounds |-> <<>>]
    ELSE [kind |-> kind, n_params |-> Len(The(names)), param_names |-> The(names),
          bounds |-> atleast_2d(b),
          lbounds |-> Column(b, 1), ubounds |-> Column(b, 2)]

\* Gaussian.__init__ : super().__init__() with no parameters.
Gaussian == ErrorFunction("Gaussian", None, None)

\* GaussianWithScatter.__init__(y_obs, bounds) : one parameter, 'sigma'.
GaussianWithScatter(b) == ErrorFunction("GaussianWithScatter", Some(<<"sigma">>), b)

\* The default bounds=(-2., 0.) of GaussianWithScatter, and a kernel with
\* two free parameters built directly on the base class.
ScatterBounds == Flat(<<-2, 0>>)
SecondBounds == <<-2, 1>>
TwoParamBounds == Rows(<< <<-2, 0>>, SecondBounds >>)
Kernels ==
    { Gaussian,
      GaussianWithScatter(ScatterBounds),
      ErrorFunction("Custom", Some(<<"a", "b">>), TwoParamBounds) }

AnyTrue(S) == \E i \in S : i

check_bounds_mut(ef, params) ==
    \/ \E i \in 1..Len(params) : params[i] < ef.lbounds[i]
    \/ \E i \in 1..Len(params) : params[i] > ef.ubounds[i]

\* ErrorFunction.check_bounds for one row, after its assertion:
\* torch.any(params <= lbounds) | torch.any(params >= ubounds)
check_bounds(ef, params) ==
    \/ AnyTrue({params[i] <= ef.lbounds[i] : i \in 1..Len(params)})
    \/ AnyTrue({params[i] >= ef.ubounds[i] : i \in 1..Len(params)})

\* The assertion at the head of check_bounds.
check_bounds_assert(ef) == ef.n_params > 0

\* Kernels on which check_bounds is called directly: the scatter kernel
\* with every pair of bounds, and two-parameter kernels.
BoundPairs == {b \in ParamVals \X ParamVals : b[1] < b[2]}
BoundedKernels ==
    {GaussianWithScatter(Flat(b)) : b \in BoundPairs}
    \cup {ErrorFunction("Custom", Some(<<"a", "b">>), Rows(<<b, SecondBounds>>)) :
             b \in BoundPairs}

----------------------------------------------------------------------------
(* Posterior.configure_output_mode *)

configure_output_mode_mut(p, output_mode, negative, lo) ==
    IF output_mode \in OutputModes
    THEN [_output_mode |-> output_mode,
          _sign |-> IF negative THEN -1 ELSE 1,
          log_out |-> lo, raised |-> "none"]
    ELSE [_output_mode |-> p._output_mode,
          _sign |-> IF negative THEN -1 ELSE 1,
          log_out |-> lo, raised |-> "ValueError"]

\* The mode is validated and stored first; the raise comes before the sign
\* and the penalty constant are assigned.
configure_output_mode(p, output_mode, negative, lo) ==
    IF output_mode \in OutputModes
    THEN [_output_mode |-> output_mode,
          _sign |-> IF negative THEN -1 ELSE 1,
          log_out |-> lo, raised |-> "none"]
    ELSE [_output_mode |-> p._output_mode, _sign |-> p._sign,
          log_out |-> p.log_out, raised |-> "ValueError"]

NoArgs == [output_mode |-> "none", negative |-> FALSE, log_out |-> 0]
NoEval ==
    [tensor_device |-> "none", rows |-> <<>>, cb_called |-> FALSE,
     returns |-> "none"]
NoData == "no data"
NoCheck == [ef |-> NoKernel, params |-> <<>>, result |-> FALSE]
NoLoad == <<>>
NoOpt ==
    [pc |-> "idle", n_step |-> 0, i_step |-> 0, x0 |-> 0, params |-> 0,
     grad |-> <<>>, loss |-> 0, trace |-> <<>>, result |-> 0]

Idle == opt.pc \in {"idle", "done"}

ConfigureOutputMode ==
    /\ Idle
    /\ \E output_mode \in ModeArgs, negative \in BOOLEAN, lo \in LogOuts :
         LET r == configure_output_mode(
                      [_output_mode |-> _output_mode, _sign |-> _sign,
                       log_out |-> log_out], output_mode, negative, lo)
         IN /\ _output_mode' = r._output_mode
            /\ _sign' = r._sign
            /\ log_out' = r.log_out
            /\ raised' = r.raised
            /\ args' = [output_mode |-> output_mode, negative |-> negative,
                        log_out |-> lo]
    /\ op' = "configure_output_mode"
    /\ ev' = NoEval
    /\ ret' = NoData
    /\ cb' = NoCheck
    /\ calls' = NoLoad
    /\ UNCHANGED <<error_func, device, adapter_cfg, detector_cfg, saved, opt>>

\* posterior.error_func = kernel : the kernel is attached by assignment,
\* Posterior.__init__ does not take it.
SetErrorFunc ==
    /\ Idle
    /\ \E k \in Kernels : error_func' = k
    /\ op' = "set_error_func"
    /\ raised' = "none"
    /\ args' = NoArgs
    /\ ev' = NoEval
    /\ ret' = NoData
    /\ cb' = NoCheck
    /\ calls' = NoLoad
    /\ UNCHANGED <<_output_mode, _sign, log_out, device, adapter_cfg,
                   detector_cfg, saved, opt>>

----------------------------------------------------------------------------
(* Posterior.forward *)

\* Device of the tensor built from the input.
TensorDevice(mode, dev) ==
    IF mode = "numpy_grad" THEN DefaultDevice ELSE dev

NeedsKernelCheck_mut(ef) == ef.n_params >= 0

\* if self.error_func.n_params > 0:
NeedsKernelCheck(ef) == ef.n_params > 0

Bool2Int(b) == IF b THEN 1 ELSE 0

LogPost_mut(sign, score, lo, is_out) ==
    sign * (IF is_out THEN lo ELSE score)

\* log_post = self._sign*(self.error_func(y_pred, p_error) + self.log_out*is_out)
LogPost(sign, score, lo, is_out) ==
    sign * (score + lo * Bool2Int(is_out))

\* Error-parameter vectors passed to forward: a point inside the kernel's
\* bounds and the corner of its lower bounds.
ErrorInputs(ef) ==
    { [i \in 1..ef.n_params |-> ef.lbounds[i] + 1], ef.lbounds }

\* One row of the batch: the forward model's flag, the kernel's value and
\* the row's error parameters.
RowInputs(ef) ==
    [model_out : BOOLEAN, score : Scores, p_error : ErrorInputs(ef)]

\* Lines 152-155 for one row.
EvalRow(ef, sign, lo, in) ==
    LET checked == NeedsKernelCheck(ef)
        kernel_out == checked /\ check_bounds(ef, in.p_error)
        is_out == in.model_out \/ kernel_out
    IN [model_out |-> in.model_out, score |-> in.score,
        p_error |-> in.p_error, kernel_out |-> kernel_out,
        is_out |-> is_out, log_post |-> LogPost(sign, in.score, lo, is_out)]

Returns(mode) ==
    CASE mode = "numpy" -> "ndarray"
      [] mode = "numpy_grad" -> "ndarray, grad"
      [] OTHER -> "tensor"

Forward ==
    /\ Idle
    /\ \E n \in 1..MaxRows :
         \* numpy_grad takes one flat vector
         /\ _output_mode = "numpy_grad" => n = 1
         /\ \E ins \in [1..n -> RowInputs(error_func)] :
              IF error_func = NoKernel
              THEN /\ raised' = "AttributeError"
                   /\ ev' = [NoEval EXCEPT
                              !.tensor_device =
                                  TensorDevice(_output_mode, device)]
                   /\ n = 1 /\ ins[1] = [model_out |-> FALSE,
                                         score |-> MinScore,
                                         p_error |-> <<>>]
              ELSE IF NeedsKernelCheck(error_func)
                      /\ ~check_bounds_assert(error_func)
              THEN /\ raised' = "AssertionError"
                   /\ ev' = [NoEval EXCEPT
                              !.tensor_device =
                                  TensorDevice(_output_mode, device),
                              !.cb_called = TRUE]
              ELSE /\ raised' = "none"
                   /\ ev' = [tensor_device |->
                                 TensorDevice(_output_mode, device),
                             rows |-> [r \in 1..n |->
                                 EvalRow(error_func, _sign, log_out, ins[r])],
                             cb_called |-> NeedsKernelCheck(error_func),
                             returns |-> Returns(_output_mode)]
    /\ op' = "forward"
    /\ args' = NoArgs
    /\ ret' = NoData
    /\ cb' = NoCheck
    /\ calls' = NoLoad
    /\ UNCHANGED <<_output_mode, _sign, log_out, error_func, device,
                   adapter_cfg, detector_cfg, saved, opt>>

\* kernel.check_bounds(params) called on a kernel directly, one row.
CheckBounds ==
    /\ Idle
    /\ \E k \in BoundedKernels \cup {Gaussian} :
         \E params \in [1..k.n_params -> ParamVals] :
            IF check_bounds_assert(k)
            THEN /\ raised' = "none"
                 /\ cb' = [ef |-> k, params |-> params,
                           result |-> check_bounds(k, params)]
            ELSE /\ raised' = "AssertionError"
                 /\ cb' = [NoCheck EXCEPT !.ef = k]
    /\ op' = "check_bounds"
    /\ args' = NoArgs
    /\ ev' = NoEval
    /\ ret' = NoData
    /\ calls' = NoLoad
    /\ UNCHANGED <<_output_mode, _sign, log_out, error_func, device,
                   adapter_cfg, detector_cfg, saved, opt>>

----------------------------------------------------------------------------
(* Python strings as sequences of characters *)

adapter == <<"a", "d", "a", "p", "t", "e", "r">>
detector == <<"d", "e", "t", "e", "c", "t", "o", "r">>
adapter_dot == adapter \o <<".">>
detector_dot == detector \o <<".">>

\* sub in s
Contains(sub, s) ==
    \E i \in 1..(Len(s) - Len(sub) + 1) :
        SubSeq(s, i, i + Len(sub) - 1) = sub

RECURSIVE Remove(_, _)
\* s.replace(old, '') : every occurrence, left to right, not overlapping
Remove(s, old) ==
    IF Len(s) < Len(old) THEN s
    ELSE IF SubSeq(s, 1, Len(old)) = old
         THEN Remove(SubSeq(s, Len(old) + 1, Len(s)), old)
         ELSE <<Head(s)>> \o Remove(Tail(s), old)

\* The characters used, in code-point order.
Alphabet ==
    <<".", "_", "a", "c", "d", "e", "f", "i", "n", "o", "p", "r", "t", "u", "w", "z">>
Ord(c) == CHOOSE i \in 1..Len(Alphabet) : Alphabet[i] = c

RECURSIVE Less(_, _)
\* s < t for strings; dir() lists names in this order.
Less(s, t) ==
    IF t = <<>> THEN FALSE
    ELSE IF s = <<>> THEN TRUE
    ELSE IF Head(s) = Head(t) THEN Less(Tail(s), Tail(t))
    ELSE Ord(Head(s)) < Ord(Head(t))

----------------------------------------------------------------------------
(* The forward model's configuration *)

\* Option names of the forward model's configuration: 'z', 'adapter_id'
\* and 'detector_id'.
ConfigKeys ==
    { <<"z">>, adapter \o <<"_", "i", "d">>, detector \o <<"_", "i", "d">> }
CfgVals == {1}
EmptyCfg == [k \in {} |-> 0]
Mappings == UNION {[K -> CfgVals] : K \in SUBSET ConfigKeys}

\* The pairs (adapter configuration, detector configuration) a caller sets.
ConfigPairs ==
    {c \in Mappings \X Mappings :
        Cardinality(DOMAIN c[1]) + Cardinality(DOMAIN c[2]) <= MaxKeys}

\* sed_model.configure_input_mode(**options) and configure_output_mode(
\* **options) raise for an option they do not know.
AcceptsOptions(cfg) == DOMAIN cfg \subseteq ConfigKeys

\* sed_model.adapter.input_size, param_names and bounds.
AdapterParamNames == [i \in 1..AdapterInputSize |-> <<"theta", i>>]
AdapterBounds == [i \in 1..AdapterInputSize |-> <<0, 1>>]

----------------------------------------------------------------------------
(* InferenceState *)

Payloads == {"chain", "best_fit"}

\* for key, val in config.items(): setattr(self, prefix + key, val)
SetAttrs(attrs, prefix, config) ==
    IF config = None THEN attrs
    ELSE LET cfg == The(config)
             new == {prefix \o k : k \in DOMAIN cfg}
         IN [n \in DOMAIN attrs \cup new |->
               IF n \in new
               THEN cfg[CHOOSE k \in DOMAIN cfg : prefix \o k = n]
               ELSE attrs[n]]

\* InferenceState.__init__(error_func, config_adapter, config_detector, data)
InferenceState(ef, config_adapter, config_detector, data) ==
    [error_func |-> ef, data |-> data,
     attrs |-> SetAttrs(SetAttrs(EmptyCfg, adapter_dot, config_adapter),
                        detector_dot, config_detector)]

NoState == [error_func |-> NoKernel, data |-> NoData, attrs |-> EmptyCfg]

\* dir(self): the attributes set by __init__ and those of the module class,
\* none of which contains 'adapter' or 'detector'.
Dir(st) ==
    DOMAIN st.attrs
    \cup { <<"e", "r", "r", "o", "r", "_", "f", "u", "n", "c">>,
           <<"d", "a", "t", "a">>,
           <<"f", "o", "r", "w", "a", "r", "d">> }

\* The mapping get_config builds for one word: every name of dir(self)
\* containing the word, stored under the name with the dotted prefix
\* removed; of two names with the same key the later one stays.
ConfigFor(st, word, prefix) ==
    LET names == {n \in Dir(st) : Contains(word, n)}
        keys == {Remove(n, prefix) : n \in names}
        last(k) == CHOOSE n \in names :
                     /\ Remove(n, prefix) = k
                     /\ \A m \in names :
                          Remove(m, prefix) = k => (m = n \/ Less(m, n))
    IN [k \in keys |-> st.attrs[last(k)]]

\* InferenceState.get_config()
get_config(st) ==
    <<ConfigFor(st, adapter, adapter_dot),
      ConfigFor(st, detector, detector_dot)>>

----------------------------------------------------------------------------
(* Posterior: construction, snapshots, derived accessors *)

\* Posterior(sed_model): a new Posterior over the same forward model.
Construct ==
    /\ Idle
    /\ LET r == configure_output_mode(
                    [_output_mode |-> "none", _sign |-> 0, log_out |-> 0],
                    "torch", FALSE, LogOutDefault)
       IN /\ _output_mode' = r._output_mode
          /\ _sign' = r._sign
          /\ log_out' = r.log_out
    /\ error_func' = NoKernel
    /\ op' = "__init__"
    /\ raised' = "none"
    /\ args' = NoArgs
    /\ ev' = NoEval
    /\ ret' = NoData
    /\ cb' = NoCheck
    /\ calls' = NoLoad
    /\ UNCHANGED <<device, adapter_cfg, detector_cfg, saved, opt>>

\* The caller configures the forward model: sed_model.configure_input_mode
\* and sed_model.configure_output_mode.
Reconfigure ==
    /\ Idle
    /\ \E c \in ConfigPairs :
         /\ adapter_cfg' = c[1]
         /\ detector_cfg' = c[2]
    /\ op' = "configure_sed_model"
    /\ raised' = "none"
    /\ args' = NoArgs
    /\ ev' = NoEval
    /\ ret' = NoData
    /\ cb' = NoCheck
    /\ calls' = NoLoad
    /\ UNCHANGED <<_output_mode, _sign, log_out, error_func, device, saved,
                   opt>>

\* Posterior.save_inference_state(fname, data)
SaveInferenceState ==
    /\ Idle
    /\ \E data \in Payloads :
         IF error_func = NoKernel
         THEN /\ raised' = "AttributeError"
              /\ saved' = saved
         ELSE /\ raised' = "none"
              /\ saved' = InferenceState(error_func, Some(adapter_cfg),
                                         Some(detector_cfg), data)
    /\ op' = "save_inference_state"
    /\ args' = NoArgs
    /\ ev' = NoEval
    /\ ret' = NoData
    /\ cb' = NoCheck
    /\ calls' = NoLoad
    /\ UNCHANGED <<_output_mode, _sign, log_out, error_func, device,
                   adapter_cfg, detector_cfg, opt>>

load_inference_state_mut(cur, st) ==
    LET cfg == get_config(st)
        in_ok == AcceptsOptions(cfg[1])
        out_ok == AcceptsOptions(cfg[2])
    IN IF ~in_ok
       THEN [error_func |-> cur.error_func,
             adapter_cfg |-> cur.adapter_cfg,
             detector_cfg |-> cur.detector_cfg,
             raised |-> "ConfigError", ret |-> NoData,
             calls |-> <<"error_func", "configure_input_mode">>]
       ELSE IF ~out_ok
       THEN [error_func |-> cur.error_func,
             adapter_cfg |-> cfg[1],
             detector_cfg |-> cur.detector_cfg,
             raised |-> "ConfigError", ret |-> NoData,
             calls |-> <<"error_func", "configure_input_mode",
                         "configure_output_mode">>]
       ELSE [error_func |-> st.error_func,
             adapter_cfg |-> cfg[1],
             detector_cfg |-> cfg[2],
             raised |-> "none", ret |-> st.data,
             calls |-> <<"error_func", "configure_input_mode",
                         "configure_output_mode", "return">>]

\* Lines 205-209.  A configure call that raises leaves the forward
\* model's configuration as it was.
load_inference_state(cur, st) ==
    LET cfg == get_config(st)
        in_ok == AcceptsOptions(cfg[1])
        out_ok == AcceptsOptions(cfg[2])
    IN IF ~in_ok
       THEN [error_func |-> st.error_func,
             adapter_cfg |-> cur.adapter_cfg,
             detector_cfg |-> cur.detector_cfg,
             raised |-> "ConfigError", ret |-> NoData,
             calls |-> <<"error_func", "configure_input_mode">>]
       ELSE IF ~out_ok
       THEN [error_func |-> st.error_func,
             adapter_cfg |-> cfg[1],
             detector_cfg |-> cur.detector_cfg,
             raised |-> "ConfigError", ret |-> NoData,
             calls |-> <<"error_func", "configure_input_mode",
                         "configure_output_mode">>]
       ELSE [error_func |-> st.error_func,
             adapter_cfg |-> cfg[1],
             detector_cfg |-> cfg[2],
             raised |-> "none", ret |-> st.data,
             calls |-> <<"error_func", "configure_input_mode",
                         "configure_output_mode", "return">>]

\* Posterior.load_inference_state(target), target a snapshot that exists.
LoadInferenceState ==
    /\ Idle
    /\ saved # NoState
    /\ LET r == load_inference_state(
                    [error_func |-> error_func,
                     adapter_cfg |-> adapter_cfg,
                     detector_cfg |-> detector_cfg], saved)
       IN /\ error_func' = r.error_func
          /\ adapter_cfg' = r.adapter_cfg
          /\ detector_cfg' = r.detector_cfg
          /\ raised' = r.raised
          /\ ret' = r.ret
          /\ calls' = r.calls
    /\ op' = "load_inference_state"
    /\ args' = NoArgs
    /\ ev' = NoEval
    /\ cb' = NoCheck
    /\ UNCHANGED <<_output_mode, _sign, log_out, device, saved, opt>>

input_size_mut == AdapterInputSize

\* Posterior.input_size
input_size == AdapterInputSize + error_func.n_params

\* Posterior.param_names
param_names == AdapterParamNames \o error_func.param_names

\* Posterior.bounds : np.vstack of the two arrays of rows
bounds == AdapterBounds \o error_func.bounds

----------------------------------------------------------------------------
(* optimize *)

\* Initial parameters and the gradients backward can produce (the
\* parameter vector is one number, the learning rate one).
X0s == {0, 1}
Grads == {-1, 1}

RECURSIVE Sum(_)
Sum(q) == IF q = <<>> THEN 0 ELSE Head(q) + Sum(Tail(q))

range_has_next_mut(i_step, n_step) == i_step <= n_step

\* for i_step in range(n_step): is there another iteration?
range_has_next(i_step, n_step) == i_step < n_step

OptUnchanged ==
    UNCHANGED <<_output_mode, _sign, log_out, error_func, device,
                adapter_cfg, detector_cfg, saved, op, raised, args, ev, ret,
                cb, calls>>

\* optimize(log_post, cls_opt, x0, n_step): lines 306-308.  The posterior
\* passed in has a kernel and returns a differentiable tensor.
OptimizeBegin ==
    /\ Idle
    /\ error_func # NoKernel
    /\ _output_mode = "torch"
    /\ \E n \in 0..MaxSteps, x \in X0s :
         opt' = [pc |-> "for", n_step |-> n, i_step |-> 0, x0 |-> x,
                 params |-> x, grad |-> <<>>, loss |-> 0, trace |-> <<>>,
                 result |-> 0]
    /\ op' = "optimize"
    /\ raised' = "none"
    /\ args' = NoArgs
    /\ ev' = NoEval
    /\ ret' = NoData
    /\ cb' = NoCheck
    /\ calls' = NoLoad
    /\ UNCHANGED <<_output_mode, _sign, log_out, error_func, device,
                   adapter_cfg, detector_cfg, saved>>

\* line 309
OptimizeFor ==
    /\ opt.pc = "for"
    /\ opt' = [opt EXCEPT !.pc = IF range_has_next(opt.i_step, opt.n_step)
                                 THEN "loss" ELSE "return"]
    /\ OptUnchanged

\* loss = model()
OptimizeLoss ==
    /\ opt.pc = "loss"
    /\ \E l \in Scores :
         opt' = [opt EXCEPT !.pc = "backward", !.loss = l,
                            !.trace = Append(@, "loss")]
    /\ OptUnchanged

\* loss.backward() : adds the gradient to the accumulated one
OptimizeBackward ==
    /\ opt.pc = "backward"
    /\ \E g \in Grads :
         opt' = [opt EXCEPT !.pc = "step", !.grad = Append(@, g),
                            !.trace = Append(@, "backward")]
    /\ OptUnchanged

\* opt.step()
OptimizeStep ==
    /\ opt.pc = "step"
    /\ opt' = [opt EXCEPT !.pc = "zero_grad",
                          !.params = @ - Sum(opt.grad),
                          !.trace = Append(@, "step")]
    /\ OptUnchanged

\* opt.zero_grad(), then the progress bar, then the next i_step
OptimizeZeroGrad ==
    /\ opt.pc = "zero_grad"
    /\ opt' = [opt EXCEPT !.pc = "for", !.grad = <<>>,
                          !.i_step = @ + 1,
                          !.trace = Append(@, "zero_grad")]
    /\ OptUnchanged

\* return model.params.detach()
OptimizeReturn ==
    /\ opt.pc = "return"
    /\ opt' = [opt EXCEPT !.pc = "done", !.result = opt.params]
    /\ OptUnchanged

OptimizeRun ==
    \/ OptimizeFor
    \/ OptimizeLoss
    \/ OptimizeBackward
    \/ OptimizeStep
    \/ OptimizeZeroGrad
    \/ OptimizeReturn

----------------------------------------------------------------------------

\* Posterior.__init__ : the default output mode; no kernel yet.
Init ==
    /\ _output_mode = "torch"
    /\ _sign = 1
    /\ log_out = LogOutDefault
    /\ error_func = NoKernel
    /\ device \in Devices
    /\ adapter_cfg = EmptyCfg
    /\ detector_cfg = EmptyCfg
    /\ saved = NoState
    /\ op = "init"
    /\ raised = "none"
    /\ args = NoArgs
    /\ ev = NoEval
    /\ ret = NoData
    /\ cb = NoCheck
    /\ calls = NoLoad
    /\ opt = NoOpt

NextState ==
    \/ SetErrorFunc
    \/ Construct
    \/ Reconfigure
    \/ SaveInferenceState
    \/ LoadInferenceState

SpecState == Init /\ [][NextState]_vars

NextOpt == SetErrorFunc \/ OptimizeBegin \/ OptimizeRun

\* optimize runs to completion once called: nothing else runs in between.
SpecOpt == Init /\ [][NextOpt]_vars /\ WF_vars(OptimizeRun)

NextEval == ConfigureOutputMode \/ SetErrorFunc \/ Forward

SpecEval == Init /\ [][NextEval]_vars

NextKernel == CheckBounds

SpecKernel == Init /\ [][NextKernel]_vars

----------------------------------------------------------------------------
(* Properties of configure_output_mode, forward and check_bounds *)

\* C1: a configure_output_mode call whose mode is none of 'torch', 'numpy',
\* 'numpy_grad' raises ValueError and leaves the stored mode, the sign and
\* log_out as they were, whatever negative and log_out were passed.
C1_InvalidModeLeavesState ==
    [][ (op' = "configure_output_mode"
            /\ args'.output_mode \notin OutputModes)
        => /\ raised' = "ValueError"
           /\ _output_mode' = _output_mode
           /\ _sign' = _sign
           /\ log_out' = log_out ]_vars

\* A rejected call that asked for the opposite sign and another penalty.
C1_Witness ==
    /\ op = "configure_output_mode"
    /\ raised = "ValueError"
    /\ args.negative /\ _sign = 1
    /\ args.log_out # log_out

\* log_out is far enough below the range of the kernel's values.
Sufficient(lo) == lo < MinScore - MaxScore

\* C2: in 'torch' mode with sign +1, a row whose out-of-bounds flag is set
\* gets score + log_out, a row whose flag is clear gets its score, and for
\* log_out sufficiently negative every flagged output is below every output
\* a clear row can have.
C2_PenaltyDominance ==
    (op = "forward" /\ raised = "none" /\ _output_mode = "torch" /\ _sign = 1)
    => \A r \in 1..Len(ev.rows) :
         /\ ev.rows[r].is_out =>
              /\ ev.rows[r].log_post = ev.rows[r].score + log_out
              /\ Sufficient(log_out) => ev.rows[r].log_post < MinScore
         /\ ~ev.rows[r].is_out =>
              /\ ev.rows[r].log_post = ev.rows[r].score
              /\ ev.rows[r].log_post >= MinScore
         /\ \A q \in 1..Len(ev.rows) :
              (Sufficient(log_out) /\ ev.rows[r].is_out /\ ~ev.rows[q].is_out)
              => ev.rows[r].log_post < ev.rows[q].log_post

\* A batch with a flagged row of the best score and a clear row of the worst.
C2_Witness ==
    /\ op = "forward" /\ raised = "none"
    /\ _output_mode = "torch" /\ _sign = 1 /\ Sufficient(log_out)
    /\ \E r, q \in 1..Len(ev.rows) :
         /\ ev.rows[r].is_out /\ ev.rows[r].score = MaxScore
         /\ ~ev.rows[q].is_out /\ ev.rows[q].score = MinScore

\* C3: forward calls check_bounds exactly when the kernel has n_params > 0;
\* the flag of a row is then the forward model's flag or the kernel's, and
\* the forward model's flag alone otherwise; the assertion in check_bounds
\* never fails in a forward call.
C3_KernelCheckGated ==
    (op = "forward" /\ raised # "AttributeError")
    => /\ raised # "AssertionError"
       /\ ev.cb_called <=> (error_func.n_params > 0)
       /\ \A r \in 1..Len(ev.rows) :
            ev.rows[r].is_out <=>
              \/ ev.rows[r].model_out
              \/ /\ error_func.n_params > 0
                 /\ \E i \in 1..error_func.n_params :
                      \/ ev.rows[r].p_error[i] <= error_func.bounds[i][1]
                      \/ ev.rows[r].p_error[i] >= error_func.bounds[i][2]

\* A row the forward model accepts and the kernel's bounds reject.
C3_Witness ==
    /\ op = "forward" /\ raised = "none"
    /\ error_func.n_params > 0 /\ ev.cb_called
    /\ \E r \in 1..Len(ev.rows) :
         ~ev.rows[r].model_out /\ ev.rows[r].is_out

\* C4: for a kernel with n_params > 0, check_bounds is false exactly when
\* every parameter lies strictly between its declared bounds; a parameter
\* equal to a bound is a violation.
C4_CheckBoundsInclusive ==
    (op = "check_bounds" /\ raised = "none")
    => /\ cb.ef.n_params > 0
       /\ Len(cb.ef.bounds) = cb.ef.n_params
       /\ cb.result <=>
            ~(\A i \in 1..cb.ef.n_params :
                /\ cb.ef.bounds[i][1] < cb.params[i]
                /\ cb.params[i] < cb.ef.bounds[i][2])

\* A violation in which no parameter is beyond a bound: one sits on it.
C4_Witness ==
    /\ op = "check_bounds" /\ raised = "none"
    /\ cb.ef.n_params = 2
    /\ cb.result
    /\ \A i \in 1..cb.ef.n_params :
         /\ cb.ef.bounds[i][1] <= cb.params[i]
         /\ cb.params[i] <= cb.ef.bounds[i][2]

\* C8: in every output mode the tensor forward builds from its input is on
\* the adapter's device.
C8_TensorOnAdapterDevice ==
    op = "forward" => ev.tensor_device = device

----------------------------------------------------------------------------
(* Properties of the snapshot, the accessors and optimize *)

\* C5: load_inference_state on a freshly constructed Posterior, given the
\* snapshot another Posterior saved over the same forward model, installs
\* the saved kernel, re-applies the adapter and detector configurations
\* captured at save time and returns the saved payload.
C5_SaveLoadRoundTrip ==
    [][ (op' = "load_inference_state" /\ error_func = NoKernel)
        => /\ raised' = "none"
           /\ error_func' = saved.error_func
           /\ ret' = saved.data
           /\ \E c \in Mappings \X Mappings :
                /\ saved = InferenceState(saved.error_func, Some(c[1]),
                                          Some(c[2]), saved.data)
                /\ adapter_cfg' = c[1]
                /\ detector_cfg' = c[2] ]_vars

\* C6: whenever the accessors can be read, param_names and bounds have
\* input_size entries, input_size being the forward model's input size plus
\* n_params of the current kernel; after a load they are those of the
\* kernel the snapshot held.
C6_AccessorsAgree ==
    error_func # NoKernel
    => /\ Len(param_names) = input_size
       /\ Len(bounds) = input_size
       /\ input_size = AdapterInputSize + error_func.n_params
       /\ op = "load_inference_state"
          => /\ SubSeq(param_names, AdapterInputSize + 1, Len(param_names))
                 = saved.error_func.param_names
             /\ SubSeq(bounds, AdapterInputSize + 1, Len(bounds))
                 = saved.error_func.bounds

\* The accessors read after a load installed a kernel with parameters.
C6_Witness ==
    /\ op = "load_inference_state"
    /\ error_func.n_params > 0
    /\ Len(param_names) > AdapterInputSize

\* One iteration of the loop of optimize.
Iteration == <<"loss", "backward", "step", "zero_grad">>

\* The first k steps of repeated iterations.
Iterations(k) == [j \in 1..k |-> Iteration[((j - 1) % 4) + 1]]

\* C7: optimize terminates, having run exactly n_step iterations of loss,
\* backward, optimizer step, zero_grad in this order, with the accumulated
\* gradient cleared at the end of each; with n_step = 0 it returns x0.
C7_ExactlyNSteps ==
    /\ [](/\ opt.trace = Iterations(Len(opt.trace))
          /\ Len(opt.trace) <= 4 * opt.n_step
          /\ opt.pc \in {"for", "return", "done"}
             => /\ opt.grad = <<>>
                /\ Len(opt.trace) = 4 * opt.i_step
          /\ opt.pc \in {"return", "done"} => opt.i_step = opt.n_step
          /\ opt.pc = "done"
             => /\ Len(opt.trace) = 4 * opt.n_step
                /\ opt.n_step = 0 => opt.result = opt.x0)
    /\ (opt.pc = "for") ~> (opt.pc = "done")

\* A run of the largest number of steps that moved the parameters.
C7_Witness ==
    /\ opt.pc = "done"
    /\ opt.n_step = MaxSteps
    /\ opt.result # opt.x0

\* C9: get_config returns the two mappings the InferenceState was built
\* from, whatever the keys are.
C9_ConfigRoundTrip ==
    (op = "save_inference_state" /\ raised = "none")
    => get_config(saved) = <<adapter_cfg, detector_cfg>>

\* C10: load_inference_state replaces the kernel, configures the input
\* mode, configures the output mode and returns the payload, in this order;
\* an error of a configure call propagates, no payload is returned, and the
\* kernel is already the snapshot's.
C10_LoadOrder ==
    op = "load_inference_state"
    => /\ \E k \in 2..4 :
            calls = SubSeq(<<"error_func", "configure_input_mode",
                             "configure_output_mode", "return">>, 1, k)
       /\ error_func = saved.error_func
       /\ raised = "none" <=> calls[Len(calls)] = "return"
       /\ raised = "none" => ret = saved.data
       /\ raised # "none" => ret = NoData

\* A load that failed in configure_output_mode: the kernel is replaced, the
\* input mode configured, nothing returned.
C10_Witness ==
    /\ op = "load_inference_state"
    /\ raised # "none"
    /\ Len(calls) = 3
    /\ error_func = saved.error_func
    /\ ret = NoData

====
